---- MODULE Spec2Model ----
(***************************************************************************)
(* A model of agent/tools/mcp_client.py: class MCPClient.                  *)
(*                                                                         *)
(* Two halves share one object:                                            *)
(*   - the process supervisor (start_all / get_status / stop_all), which   *)
(*     keeps the dict self.processes of subprocess.Popen handles;          *)
(*   - the stdio client (list_tools / call_tool), which opens one          *)
(*     short-lived session per server through _with_session.               *)
(*                                                                         *)
(* A caller is a thread.  Each public method is a sequence of steps, one   *)
(* per statement that talks to the operating system or to a server (a      *)
(* Popen, a terminate, an await); th[t] holds the method a thread is in,   *)
(* its position and its local variables.  The stdio client reads only      *)
(* self.servers and the supervisor only self.servers and self.processes,   *)
(* so each half is explored by a specification of its own:                 *)
(*   Spec      one thread calls list_tools and call_tool;                  *)
(*   SupSpec   one thread calls start_all, get_status and stop_all while   *)
(*             processes exit;                                             *)
(*   ConcSpec  two threads call start_all and stop_all; the code takes no  *)
(*             lock, so their steps interleave freely;                     *)
(*   FullSpec  one thread calls all five methods in any order, which is    *)
(*             where the separation of the two halves is checked.          *)
(***************************************************************************)
EXTENDS Integers, Sequences, FiniteSets, TLC

(* ------------------------------ bounds -------------------------------- *)

\* Longest registry (self.servers) explored.
MaxServers == 3

\* Longest registry explored with two threads in the supervisor.
MaxConcServers == 2

\* Most processes subprocess.Popen creates in one behaviour.
MaxSpawns == 2

\* Longest registry explored when one thread calls all five methods.
MaxFullServers == 1

\* Most processes start_all creates in one such behaviour.
MaxFullSpawns == 1

(* ------------------------------ inputs -------------------------------- *)

\* Server names a configuration may use; names may repeat in a registry.
Names == {"fs", "web"}

\* A server_name no descriptor carries.
Unconfigured == "nosuch"

\* server_name=None, or any other value the tests `not server_name` and
\* `if server_name` take as absent (the empty string).
NoServer == "None"

\* Values the server_name parameter takes.
ServerNameArgs == Names \cup {Unconfigured, NoServer}

\* Tool names: the `name` parameter and what servers advertise.
ToolNames == {"read_file", "x"}

\* Tool lists a server's list-tools response may carry.
AdvertisedLists == {<<>>, <<"read_file">>, <<"x">>, <<"read_file", "x">>}

\* Call-tool payloads: with a content attribute, or without one.
Payloads == {[hasContent |-> TRUE, content |-> "content", raw |-> "raw"],
             [hasContent |-> FALSE, content |-> "", raw |-> "raw"]}

\* Callers of one MCPClient.  Spec and SupSpec run the first alone; ConcSpec
\* runs both.
Threads == {1, 2}
MainThread == CHOOSE t \in Threads : \A u \in Threads : t <= u

\* A registry is the sequence of its descriptors' names; a descriptor is
\* identified by its position (its command, args and env are its own).
Registries == UNION {[1..n -> Names] : n \in 0..MaxServers}

VARIABLES
    registry,   \* self.servers
    processes,  \* self.processes: insertion-ordered dict name -> Popen handle
    procs,      \* the operating system's view of every process Popen created
    th,         \* per thread: the method it runs, its position and locals
    sessions    \* the stdio sessions opened by the latest list_tools/call_tool

vars == <<registry, processes, procs, th, sessions>>

(* --------------------------- dict helpers ----------------------------- *)

Range(s) == {s[i] : i \in 1..Len(s)}

\* name in self.processes
Has(ps, n) == \E i \in 1..Len(ps) : ps[i].name = n

\* self.processes[name]
Get(ps, n) == ps[CHOOSE i \in 1..Len(ps) : ps[i].name = n].proc

\* self.processes[name] = proc  (an existing key keeps its position)
Put(ps, n, p) ==
    IF Has(ps, n)
    THEN [i \in 1..Len(ps) |->
             IF ps[i].name = n THEN [name |-> n, proc |-> p] ELSE ps[i]]
    ELSE Append(ps, [name |-> n, proc |-> p])

\* A stop_all that keeps the entry it has just handled.
PopKeepsEntry(ps, n) == ps

\* self.processes.pop(name, None)
Pop(ps, n) == SelectSeq(ps, LAMBDA e : e.name # n)

\* proc.poll() is None
Running(p) == procs[p].alive

\* A check that looks at neither the table nor the process.
AlreadyRunningNever(n) == FALSE

\* srv.name in self.processes and self.processes[srv.name].poll() is None
AlreadyRunning(n) == Has(processes, n) /\ Running(Get(processes, n))

\* What a thread holds between two calls, before its first call.
Idle == [kind |-> "idle", pc |-> "done"]

Ready(t) == th[t].pc = "done"

(* ----------------------------- start_all ------------------------------ *)

\* The for loop of start_all moves to the next descriptor, or returns.
StartAllAdvance(loc) ==
    IF loc.i + 1 > Len(registry)
    THEN [loc EXCEPT !.pc = "done", !.i = loc.i + 1]
    ELSE [loc EXCEPT !.pc = "check", !.i = loc.i + 1]

\* start_all is called: started = [], the loop begins (or ends at once).
\* first is the number Popen will give the next process it creates.
StartAllBegin(t) ==
    /\ Ready(t)
    /\ th' = [th EXCEPT ![t] =
                StartAllAdvance([kind |-> "start_all", pc |-> "check", i |-> 0,
                                 started |-> <<>>, proc |-> 0,
                                 first |-> Len(procs) + 1])]
    /\ UNCHANGED <<registry, processes, procs, sessions>>

\* if srv.name in self.processes and ...poll() is None: continue
StartAllCheck(t) ==
    /\ th[t].kind = "start_all" /\ th[t].pc = "check"
    /\ th' = [th EXCEPT ![t] =
                IF AlreadyRunning(registry[th[t].i])
                THEN StartAllAdvance(th[t])
                ELSE [th[t] EXCEPT !.pc = "spawn"]]
    /\ UNCHANGED <<registry, processes, procs, sessions>>

\* A start_all without the try/except: the Popen exception ends the call.
StartAllSpawnAborts(t) ==
    /\ th[t].kind = "start_all" /\ th[t].pc = "spawn"
    /\ \/ /\ Len(procs) < MaxSpawns
          /\ procs' = Append(procs, [name |-> registry[th[t].i], alive |-> TRUE,
                                     calls |-> 0, oks |-> 0])
          /\ th' = [th EXCEPT ![t] = [th[t] EXCEPT !.pc = "record",
                                                   !.proc = Len(procs) + 1]]
       \/ /\ procs' = procs
          /\ th' = [th EXCEPT ![t] = [th[t] EXCEPT !.pc = "done"]]
    /\ UNCHANGED <<registry, processes, sessions>>

\* proc = subprocess.Popen(cmd, env=env): a new process, or an exception
\* that the handler swallows.
StartAllSpawn(t) ==
    /\ th[t].kind = "start_all" /\ th[t].pc = "spawn"
    /\ \/ /\ Len(procs) < MaxSpawns
          /\ procs' = Append(procs, [name |-> registry[th[t].i], alive |-> TRUE,
                                     calls |-> 0, oks |-> 0])
          /\ th' = [th EXCEPT ![t] = [th[t] EXCEPT !.pc = "record",
                                                   !.proc = Len(procs) + 1]]
       \/ /\ procs' = procs
          /\ th' = [th EXCEPT ![t] = StartAllAdvance(th[t])]
    /\ UNCHANGED <<registry, processes, sessions>>

\* self.processes[srv.name] = proc; started.append(srv.name)
StartAllRecord(t) ==
    /\ th[t].kind = "start_all" /\ th[t].pc = "record"
    /\ processes' = Put(processes, registry[th[t].i], th[t].proc)
    /\ th' = [th EXCEPT ![t] =
                StartAllAdvance([th[t] EXCEPT
                    !.started = Append(th[t].started, registry[th[t].i])])]
    /\ UNCHANGED <<registry, procs, sessions>>

(* ----------------------------- stop_all ------------------------------- *)

\* The for loop of stop_all moves to the next snapshot entry, or returns.
StopAllAdvance(loc) ==
    IF loc.j + 1 > Len(loc.snapshot)
    THEN [loc EXCEPT !.pc = "done", !.j = loc.j + 1]
    ELSE [loc EXCEPT !.pc = "terminate", !.j = loc.j + 1]

\* stop_all is called: stopped = [], list(self.processes.items()) is taken.
StopAllBegin(t) ==
    /\ Ready(t)
    /\ th' = [th EXCEPT ![t] =
                StopAllAdvance([kind |-> "stop_all", pc |-> "terminate", j |-> 0,
                                snapshot |-> processes, stopped |-> <<>>])]
    /\ UNCHANGED <<registry, processes, procs, sessions>>

\* proc.terminate(); stopped.append(name)  -- or terminate raises and the
\* handler swallows it.
StopAllTerminate(t) ==
    /\ th[t].kind = "stop_all" /\ th[t].pc = "terminate"
    /\ LET e == th[t].snapshot[th[t].j] IN
       \/ /\ procs' = [procs EXCEPT ![e.proc].calls = @ + 1,
                                    ![e.proc].oks = @ + 1]
          /\ th' = [th EXCEPT ![t] = [th[t] EXCEPT
                        !.pc = "pop",
                        !.stopped = Append(th[t].stopped, e.name)]]
       \/ /\ procs' = [procs EXCEPT ![e.proc].calls = @ + 1]
          /\ th' = [th EXCEPT ![t] = [th[t] EXCEPT !.pc = "pop"]]
    /\ UNCHANGED <<registry, processes, sessions>>

\* finally: self.processes.pop(name, None)
StopAllPop(t) ==
    /\ th[t].kind = "stop_all" /\ th[t].pc = "pop"
    /\ processes' = Pop(processes, th[t].snapshot[th[t].j].name)
    /\ th' = [th EXCEPT ![t] = StopAllAdvance(th[t])]
    /\ UNCHANGED <<registry, procs, sessions>>

(* ---------------------------- get_status ------------------------------ *)

\* A get_status without the setdefault loop over the configured servers.
StatusOfTrackedOnly(ps) ==
    [n \in {ps[i].name : i \in 1..Len(ps)} |-> procs[Get(ps, n)].alive]

\* The dict get_status builds: tracked names by poll(), then setdefault
\* False for every configured name.
StatusOf(ps) ==
    [n \in {ps[i].name : i \in 1..Len(ps)} \cup Range(registry) |->
        IF Has(ps, n) THEN Running(Get(ps, n)) ELSE FALSE]

GetStatus(t) ==
    /\ Ready(t)
    /\ th' = [th EXCEPT ![t] = [kind |-> "get_status", pc |-> "done",
                                result |-> StatusOf(processes)]]
    /\ UNCHANGED <<registry, processes, procs, sessions>>

(* --------------------------- _with_session ---------------------------- *)

\* Exceptions of one server attempt.
SpawnError == "spawn_error"
HandshakeError == "handshake_error"
ListError == "list_error"
ToolNotFound == "tool_not_found"
CallError == "call_error"

\* last_err = None
NoneErr == "None"

\* What leaves _with_session: the value coro returned, or an exception.
Returned(v) == [ok |-> TRUE, value |-> v, err |-> NoneErr]
Raised(e) == [ok |-> FALSE, value |-> <<>>, err |-> e]

\* One _with_session invocation: the descriptor it is for, whether
\* stdio_client spawned its process, whether its transport is open, how often
\* it was torn down, the requests sent on it, whether its initialize was
\* answered, whether its list-tools was answered and with which names, and how
\* it ended.
NewSession(srv, spawned) ==
    [srv |-> srv, spawned |-> spawned, open |-> spawned, teardowns |-> 0,
     requests |-> <<>>, initialized |-> FALSE, listed |-> FALSE,
     advertised |-> <<>>,
     outcome |-> IF spawned THEN "pending" ELSE SpawnError]

\* A context manager that releases only when the body returned normally.
SessionExitLeaksOnError(s, pending) ==
    IF pending.ok
    THEN [s EXCEPT !.open = FALSE, !.teardowns = @ + 1, !.outcome = "ok"]
    ELSE [s EXCEPT !.outcome = pending.err]

\* Leaving both `async with` blocks: the transport is closed and the process
\* reaped, whatever left the body.
SessionExit(s, pending) ==
    [s EXCEPT !.open = FALSE, !.teardowns = @ + 1,
              !.outcome = IF pending.ok THEN "ok" ELSE pending.err]

\* The request is written to the session's transport.
Send(ss, sid, req) == [ss EXCEPT ![sid].requests = Append(@, req)]

InSession(t) == th[t].kind \in {"call_tool", "list_tools"}

(* ------------------------------ call_tool ----------------------------- *)

\* raise RuntimeError("未找到匹配的 MCP 服务器配置")
ErrNoMatch == [msg |-> "no_matching_server", name |-> "", last |-> NoneErr]

\* raise RuntimeError(f"工具调用失败：{name}; 最后错误：{last_err}")
ErrToolCallFailed(name, last) ==
    [msg |-> "tool_call_failed", name |-> name, last |-> last]

NoError == [msg |-> "", name |-> "", last |-> NoneErr]

Indexes == [i \in 1..Len(registry) |-> i]

\* A filter that forgets the pin.
CandidatesIgnorePin(sn) == Indexes

\* servers = [s for s in self.servers if (not server_name or s.name == server_name)]
Candidates(sn) ==
    SelectSeq(Indexes, LAMBDA i : sn = NoServer \/ registry[i] = sn)

\* getattr(result, "content", result)
Content(payload) == IF payload.hasContent THEN payload.content ELSE payload.raw

\* A loop that stores a success and goes on to the remaining candidates.
RunAllKeepsGoing(loc, pending) ==
    IF pending.ok
    THEN IF loc.k = Len(loc.servers)
         THEN [loc EXCEPT !.pc = "done", !.outcome = "returned", !.value = pending.value]
         ELSE [loc EXCEPT !.pc = "open", !.k = loc.k + 1, !.value = pending.value]
    ELSE IF loc.k = Len(loc.servers)
         THEN [loc EXCEPT !.pc = "done", !.outcome = "raised",
                          !.last_err = pending.err,
                          !.error = ErrToolCallFailed(loc.name, pending.err)]
         ELSE [loc EXCEPT !.pc = "open", !.k = loc.k + 1, !.last_err = pending.err]

\* A loop that records only the first failure as last_err.
RunAllKeepsFirstError(loc, pending) ==
    LET err == IF loc.last_err = NoneErr THEN pending.err ELSE loc.last_err IN
    IF pending.ok
    THEN [loc EXCEPT !.pc = "done", !.outcome = "returned", !.value = pending.value]
    ELSE IF loc.k = Len(loc.servers)
         THEN [loc EXCEPT !.pc = "done", !.outcome = "raised", !.last_err = err,
                          !.error = ErrToolCallFailed(loc.name, err)]
         ELSE [loc EXCEPT !.pc = "open", !.k = loc.k + 1, !.last_err = err]

\* A loop that lets the first candidate's exception escape.
RunAllRaisesFirst(loc, pending) ==
    IF pending.ok
    THEN [loc EXCEPT !.pc = "done", !.outcome = "returned", !.value = pending.value]
    ELSE [loc EXCEPT !.pc = "done", !.outcome = "raised", !.last_err = pending.err,
                     !.error = ErrToolCallFailed(loc.name, pending.err)]

\* The body of _run_all's for loop once _try_call(srv) has ended: return its
\* value; or record last_err and continue, raising after the last candidate.
RunAll(loc, pending) ==
    IF pending.ok
    THEN [loc EXCEPT !.pc = "done", !.outcome = "returned", !.value = pending.value]
    ELSE IF loc.k = Len(loc.servers)
         THEN [loc EXCEPT !.pc = "done", !.outcome = "raised",
                          !.last_err = pending.err,
                          !.error = ErrToolCallFailed(loc.name, pending.err)]
         ELSE [loc EXCEPT !.pc = "open", !.k = loc.k + 1, !.last_err = pending.err]

\* call_tool(name, arguments, server_name) is called; _run_all selects the
\* candidates and raises when there are none.
CallToolBegin(t) ==
    /\ Ready(t)
    /\ \E name \in ToolNames, sn \in ServerNameArgs :
         LET loc == [kind |-> "call_tool", pc |-> "open", name |-> name,
                     server_name |-> sn, servers |-> Candidates(sn), k |-> 1,
                     sid |-> 0, last_err |-> NoneErr, pending |-> Raised(NoneErr),
                     outcome |-> "none", value |-> "", error |-> NoError]
         IN th' = [th EXCEPT ![t] =
                     IF loc.servers = <<>>
                     THEN [loc EXCEPT !.pc = "done", !.outcome = "raised",
                                      !.error = ErrNoMatch]
                     ELSE loc]
    /\ sessions' = <<>>
    /\ UNCHANGED <<registry, processes, procs>>

(* ----------------------------- list_tools ----------------------------- *)

EmptyMap == [n \in {} |-> <<>>]

\* result[srv.name] = names
MapPut(m, n, v) == [x \in DOMAIN m \cup {n} |-> IF x = n THEN v ELSE m[x]]

\* A _gather without the skip.
ListTargetsIgnorePin(sn) == Indexes

\* The descriptors _gather does not skip:
\* if server_name and srv.name != server_name: continue
ListTargets(sn) ==
    SelectSeq(Indexes, LAMBDA i : ~(sn # NoServer /\ registry[i] # sn))

\* A handler that lets the per-server failure escape.
ListForSrvRaises(loc, pending) ==
    IF pending.ok
    THEN [loc EXCEPT !.pc = IF loc.k = Len(loc.servers) THEN "done" ELSE "open",
                     !.outcome = IF loc.k = Len(loc.servers) THEN "returned" ELSE "none",
                     !.k = loc.k + 1,
                     !.result = MapPut(loc.result, registry[loc.servers[loc.k]],
                                       pending.value)]
    ELSE [loc EXCEPT !.pc = "done", !.outcome = "raised",
                     !.error = ErrToolCallFailed("", pending.err)]

\* _list_for_srv turns an exception into [], _gather stores the names under
\* srv.name and goes on to the next descriptor, returning after the last.
ListForSrv(loc, pending) ==
    LET names == IF pending.ok THEN pending.value ELSE <<>>
        last == loc.k = Len(loc.servers)
    IN  [loc EXCEPT !.pc = IF last THEN "done" ELSE "open",
                    !.outcome = IF last THEN "returned" ELSE "none",
                    !.k = loc.k + 1,
                    !.result = MapPut(loc.result, registry[loc.servers[loc.k]], names)]

\* A list_tools that refuses to run when it has nothing to query.
ListToolsBeginRaisesOnEmpty(t) ==
    /\ Ready(t)
    /\ \E sn \in ServerNameArgs :
         LET loc == [kind |-> "list_tools", pc |-> "open", server_name |-> sn,
                     servers |-> ListTargets(sn), k |-> 1, sid |-> 0,
                     pending |-> Raised(NoneErr), outcome |-> "none",
                     result |-> EmptyMap, error |-> NoError]
         IN th' = [th EXCEPT ![t] =
                     IF loc.servers = <<>>
                     THEN [loc EXCEPT !.pc = "done", !.outcome = "raised",
                                      !.error = ErrNoMatch]
                     ELSE loc]
    /\ sessions' = <<>>
    /\ UNCHANGED <<registry, processes, procs>>

\* list_tools(server_name) is called.
ListToolsBegin(t) ==
    /\ Ready(t)
    /\ \E sn \in ServerNameArgs :
         LET loc == [kind |-> "list_tools", pc |-> "open", server_name |-> sn,
                     servers |-> ListTargets(sn), k |-> 1, sid |-> 0,
                     pending |-> Raised(NoneErr), outcome |-> "none",
                     result |-> EmptyMap, error |-> NoError]
         IN th' = [th EXCEPT ![t] =
                     IF loc.servers = <<>>
                     THEN [loc EXCEPT !.pc = "done", !.outcome = "returned"]
                     ELSE loc]
    /\ sessions' = <<>>
    /\ UNCHANGED <<registry, processes, procs>>

(* --------------------------- session steps ---------------------------- *)

\* What the caller of _with_session does with its value or exception.
Deliver(loc, pending) ==
    IF loc.kind = "call_tool" THEN RunAll(loc, pending) ELSE ListForSrv(loc, pending)

\* async with stdio_client(params): the server process is spawned and its
\* streams opened, or the spawn fails and the exception leaves _with_session.
WithSessionOpen(t) ==
    /\ InSession(t) /\ th[t].pc = "open"
    /\ LET srv == th[t].servers[th[t].k] IN
       \/ /\ sessions' = Append(sessions, NewSession(srv, TRUE))
          /\ th' = [th EXCEPT ![t] = [th[t] EXCEPT !.pc = "initialize",
                                                   !.sid = Len(sessions) + 1]]
       \/ /\ sessions' = Append(sessions, NewSession(srv, FALSE))
          /\ th' = [th EXCEPT ![t] =
                      Deliver([th[t] EXCEPT !.sid = Len(sessions) + 1],
                              Raised(SpawnError))]
    /\ UNCHANGED <<registry, processes, procs>>

\* A session that runs coro although its handshake was refused.
InitializeFailureIgnored(loc) == [loc EXCEPT !.pc = "list"]

\* session.initialize() raises: the exception leaves the body before coro.
InitializeFailed(loc) ==
    [loc EXCEPT !.pc = "teardown", !.pending = Raised(HandshakeError)]

\* await session.initialize(): answered, refused, or never answered (the
\* await has no timeout, so the coroutine stays suspended).
WithSessionInitialize(t) ==
    /\ InSession(t) /\ th[t].pc = "initialize"
    /\ \/ /\ sessions' = [Send(sessions, th[t].sid, "initialize")
                             EXCEPT ![th[t].sid].initialized = TRUE]
          /\ th' = [th EXCEPT ![t] = [th[t] EXCEPT !.pc = "list"]]
       \/ /\ sessions' = Send(sessions, th[t].sid, "initialize")
          /\ th' = [th EXCEPT ![t] = InitializeFailed(th[t])]
       \/ /\ sessions' = Send(sessions, th[t].sid, "initialize")
          /\ th' = [th EXCEPT ![t] = [th[t] EXCEPT !.pc = "blocked"]]
    /\ UNCHANGED <<registry, processes, procs>>

\* A check that finds every name.
HasToolAlways(name, names) == TRUE

\* name in names
HasTool(name, names) == name \in Range(names)

\* ret = await session.list_tools(); names = [t.name for t in ret.tools]
\* list_tools returns the names; call_tool raises tool_not_found unless
\* name is among them.
RunListTools(t) ==
    /\ InSession(t) /\ th[t].pc = "list"
    /\ \/ \E names \in AdvertisedLists :
            /\ sessions' = [Send(sessions, th[t].sid, "list_tools")
                               EXCEPT ![th[t].sid].listed = TRUE,
                                      ![th[t].sid].advertised = names]
            /\ th' = [th EXCEPT ![t] =
                     IF th[t].kind = "list_tools"
                     THEN [th[t] EXCEPT !.pc = "teardown", !.pending = Returned(names)]
                     ELSE IF HasTool(th[t].name, names)
                          THEN [th[t] EXCEPT !.pc = "call"]
                          ELSE [th[t] EXCEPT !.pc = "teardown",
                                             !.pending = Raised(ToolNotFound)]]
       \/ /\ sessions' = Send(sessions, th[t].sid, "list_tools")
          /\ th' = [th EXCEPT ![t] = [th[t] EXCEPT !.pc = "teardown",
                                                   !.pending = Raised(ListError)]]
       \/ /\ sessions' = Send(sessions, th[t].sid, "list_tools")
          /\ th' = [th EXCEPT ![t] = [th[t] EXCEPT !.pc = "blocked"]]
    /\ UNCHANGED <<registry, processes, procs>>

\* result = await session.call_tool(name=name, arguments=arguments)
RunCallTool(t) ==
    /\ th[t].kind = "call_tool" /\ th[t].pc = "call"
    /\ sessions' = Send(sessions, th[t].sid, "call_tool")
    /\ \/ \E payload \in Payloads :
            th' = [th EXCEPT ![t] = [th[t] EXCEPT !.pc = "teardown",
                                        !.pending = Returned(Content(payload))]]
       \/ th' = [th EXCEPT ![t] = [th[t] EXCEPT !.pc = "teardown",
                                                !.pending = Raised(CallError)]]
       \/ th' = [th EXCEPT ![t] = [th[t] EXCEPT !.pc = "blocked"]]
    /\ UNCHANGED <<registry, processes, procs>>

\* A teardown that also ends the tracked process of the session's server.
WithSessionExitReapsTracked(t) ==
    /\ InSession(t) /\ th[t].pc = "teardown"
    /\ sessions' = [sessions EXCEPT ![th[t].sid] = SessionExit(@, th[t].pending)]
    /\ th' = [th EXCEPT ![t] = Deliver(th[t], th[t].pending)]
    /\ procs' = [p \in 1..Len(procs) |->
                   IF /\ procs[p].name = registry[sessions[th[t].sid].srv]
                      /\ \E i \in 1..Len(processes) : processes[i].proc = p
                   THEN [procs[p] EXCEPT !.alive = FALSE]
                   ELSE procs[p]]
    /\ UNCHANGED <<registry, processes>>

\* The value or exception leaves the two `async with` blocks, which tear the
\* session down, and reaches the caller of _with_session.
WithSessionExit(t) ==
    /\ InSession(t) /\ th[t].pc = "teardown"
    /\ sessions' = [sessions EXCEPT ![th[t].sid] = SessionExit(@, th[t].pending)]
    /\ th' = [th EXCEPT ![t] = Deliver(th[t], th[t].pending)]
    /\ UNCHANGED <<registry, processes, procs>>

(* ---------------------------- environment ----------------------------- *)

\* A process ends (on its own, or after a signal): poll() stops being None.
ProcessExit ==
    \E p \in 1..Len(procs) :
        /\ procs[p].alive
        /\ procs' = [procs EXCEPT ![p].alive = FALSE]
        /\ UNCHANGED <<registry, processes, th, sessions>>

(* --------------------------- specifications --------------------------- *)

\* MCPClient(servers): self.servers = servers or [], self.processes = {}.
Init ==
    /\ registry \in Registries
    /\ processes = <<>>
    /\ procs = <<>>
    /\ th = [t \in Threads |-> Idle]
    /\ sessions = <<>>

Invocation(t) ==
    \/ CallToolBegin(t)
    \/ ListToolsBegin(t)
    \/ WithSessionOpen(t)
    \/ WithSessionInitialize(t)
    \/ RunListTools(t)
    \/ RunCallTool(t)
    \/ WithSessionExit(t)

\* One thread calls list_tools and call_tool one after the other.
Next == Invocation(MainThread)

Spec == Init /\ [][Next]_vars

Supervisor(t) ==
    \/ StartAllBegin(t)
    \/ StartAllCheck(t)
    \/ StartAllSpawn(t)
    \/ StartAllRecord(t)
    \/ StopAllBegin(t)
    \/ StopAllTerminate(t)
    \/ StopAllPop(t)

\* One thread calls start_all, get_status and stop_all one after the other.
SupNext ==
    \/ Supervisor(MainThread)
    \/ GetStatus(MainThread)
    \/ ProcessExit

SupSpec == Init /\ [][SupNext]_vars

\* Two threads call start_all and stop_all on one MCPClient.
ConcInit == Init /\ Len(registry) <= MaxConcServers

ConcNext ==
    \/ \E t \in Threads : Supervisor(t)
    \/ ProcessExit

ConcSpec == ConcInit /\ [][ConcNext]_vars

\* One thread calls start_all, get_status, stop_all, list_tools and call_tool
\* in any order while processes exit.
FullInit == Init /\ Len(registry) <= MaxFullServers

FullNext ==
    \/ Supervisor(MainThread) /\ Len(procs') <= MaxFullSpawns
    \/ GetStatus(MainThread)
    \/ Invocation(MainThread)
    \/ ProcessExit

FullSpec == FullInit /\ [][FullNext]_vars

(* ------------------------------- claims ------------------------------- *)

\* The attempt ended in an exception.
Failed(s) == s.outcome \notin {"pending", "ok"}

\* C1: in a call_tool without server_name the j-th session is on the j-th
\* configured server, a session is opened only after every earlier one has
\* failed and been closed, the call returns exactly when a session has both
\* listed the tool and executed it, and that session is the last one opened:
\* no server listed after it is contacted.
C1_OrderedFailoverStopsAtFirstSuccess ==
    \A t \in Threads :
        (th[t].kind = "call_tool" /\ th[t].server_name = NoServer) =>
            /\ Len(sessions) <= Len(registry)
            /\ \A j \in 1..Len(sessions) :
                 /\ sessions[j].srv = j
                 /\ j < Len(sessions) => Failed(sessions[j]) /\ ~sessions[j].open
                 /\ sessions[j].outcome = "ok" =>
                      /\ j = Len(sessions)
                      /\ sessions[j].requests = <<"initialize", "list_tools", "call_tool">>
                      /\ th[t].outcome = "returned"
            /\ th[t].outcome = "returned" =>
                 /\ Len(sessions) >= 1
                 /\ sessions[Len(sessions)].outcome = "ok"

\* C1 witness: the first server does not advertise the tool, the second runs
\* it, and the third configured server is never contacted.
C1_Witness ==
    /\ th[MainThread].kind = "call_tool"
    /\ th[MainThread].server_name = NoServer
    /\ th[MainThread].outcome = "returned"
    /\ Len(registry) = 3
    /\ Len(sessions) = 2
    /\ sessions[1].outcome = ToolNotFound
    /\ sessions[2].outcome = "ok"

\* C2: a session is torn down once when it is left and never again, a spawn
\* that failed leaves nothing to tear down, and when call_tool or list_tools
\* has returned or raised no session is open.
C2_TornDownExactlyOnce ==
    /\ \A j \in 1..Len(sessions) :
         /\ sessions[j].teardowns = IF sessions[j].spawned /\ ~sessions[j].open
                                    THEN 1 ELSE 0
         /\ sessions[j].open => sessions[j].spawned
    /\ \A t \in Threads :
         (InSession(t) /\ th[t].pc = "done") =>
             \A j \in 1..Len(sessions) :
                 /\ ~sessions[j].open
                 /\ sessions[j].spawned => sessions[j].teardowns = 1

\* C2 witness: a call has raised after a session whose handshake failed, one
\* whose tool call raised and one that did not list the tool, each torn down.
C2_Witness ==
    /\ th[MainThread].kind = "call_tool"
    /\ th[MainThread].pc = "done"
    /\ th[MainThread].outcome = "raised"
    /\ Len(sessions) = 3
    /\ sessions[1].outcome = HandshakeError
    /\ sessions[2].outcome = CallError
    /\ sessions[3].outcome = ToolNotFound
    /\ \A j \in 1..3 : sessions[j].teardowns = 1 /\ ~sessions[j].open

\* C3: a call_tool whose server_name no descriptor carries has raised the
\* "no matching server configuration" error as soon as it is called, and
\* _with_session was never entered: no process spawned, no session opened.
C3_UnconfiguredPinRaisesBeforeAnySession ==
    \A t \in Threads :
        (/\ th[t].kind = "call_tool"
         /\ th[t].server_name # NoServer
         /\ th[t].server_name \notin Range(registry)) =>
            /\ th[t].pc = "done"
            /\ th[t].outcome = "raised"
            /\ th[t].error = ErrNoMatch
            /\ sessions = <<>>

\* C3 witness: the unconfigured name is given against a full registry.
C3_Witness ==
    /\ th[MainThread].kind = "call_tool"
    /\ th[MainThread].server_name = Unconfigured
    /\ Len(registry) = 3
    /\ th[MainThread].outcome = "raised"

\* C4: a call_tool pinned to a configured server_name opens at most one
\* session, on a descriptor of that name, and a failure of that session is the
\* failure of the call; duplicated names included.
C4_PinnedCallOpensOneSession ==
    \A t \in Threads :
        (/\ th[t].kind = "call_tool"
         /\ th[t].server_name \in Range(registry)) =>
            /\ Len(sessions) <= 1
            /\ \A j \in 1..Len(sessions) :
                 /\ registry[sessions[j].srv] = th[t].server_name
                 /\ Failed(sessions[j]) =>
                      /\ th[t].outcome = "raised"
                      /\ th[t].error.msg = "tool_call_failed"

\* The last descriptor carrying name n.
LastIndexOf(n) ==
    CHOOSE i \in 1..Len(registry) :
        /\ registry[i] = n
        /\ \A k \in (i + 1)..Len(registry) : registry[k] # n

\* C5 as stated: list_tools() returns one entry per configured descriptor, and
\* every descriptor whose query failed maps to the empty sequence.
C5_OneEntryPerDescriptor ==
    \A t \in Threads :
        (/\ th[t].kind = "list_tools"
         /\ th[t].server_name = NoServer
         /\ th[t].pc = "done") =>
            /\ th[t].outcome = "returned"
            /\ Len(sessions) = Len(registry)
            /\ Cardinality(DOMAIN th[t].result) = Len(registry)
            /\ \A j \in 1..Len(sessions) :
                 Failed(sessions[j]) =>
                     th[t].result[registry[sessions[j].srv]] = <<>>

\* C5 as amended: list_tools() never raises, queries every descriptor, and
\* returns one entry per distinct configured name; a name whose last
\* descriptor's query failed maps to the empty sequence.
C5_OneEntryPerName ==
    \A t \in Threads :
        (/\ th[t].kind = "list_tools"
         /\ th[t].server_name = NoServer
         /\ th[t].pc = "done") =>
            /\ th[t].outcome = "returned"
            /\ Len(sessions) = Len(registry)
            /\ \A j \in 1..Len(sessions) : sessions[j].srv = j
            /\ DOMAIN th[t].result = Range(registry)
            /\ \A n \in Range(registry) :
                 Failed(sessions[LastIndexOf(n)]) => th[t].result[n] = <<>>

\* C5 witness: three servers, the first fails to spawn, the second fails its
\* handshake, the third lists a tool; the call returns.
C5_Witness ==
    /\ th[MainThread].kind = "list_tools"
    /\ th[MainThread].server_name = NoServer
    /\ th[MainThread].pc = "done"
    /\ registry = <<"fs", "web", "fs">>
    /\ sessions[1].outcome = SpawnError
    /\ sessions[2].outcome = HandshakeError
    /\ sessions[3].outcome = "ok"
    /\ th[MainThread].result["web"] = <<>>
    /\ th[MainThread].result["fs"] = <<"read_file">>

\* C6: in a call_tool that has candidates, a failed attempt on any candidate
\* but the last is followed by the next candidate, not by an error; the call
\* raises only after every candidate was attempted and failed, and what it
\* raises is the "tool call failed" error.
C6_FailuresAdvanceUntilExhausted ==
    \A t \in Threads :
        (th[t].kind = "call_tool" /\ th[t].servers # <<>>) =>
            /\ \A j \in 1..Len(sessions) :
                 (Failed(sessions[j]) /\ j < Len(th[t].servers)) =>
                     /\ j < Len(sessions) \/ (th[t].pc = "open" /\ th[t].k = j + 1)
                     /\ j = Len(sessions) => th[t].outcome = "none"
            /\ th[t].outcome = "raised" =>
                 /\ Len(sessions) = Len(th[t].servers)
                 /\ \A j \in 1..Len(sessions) :
                      Failed(sessions[j]) /\ sessions[j].srv = th[t].servers[j]
                 /\ th[t].error.msg = "tool_call_failed"

\* C6 witness: the registry's single server fails to spawn and the unpinned
\* call raises "tool call failed".
C6_Witness ==
    /\ th[MainThread].kind = "call_tool"
    /\ th[MainThread].server_name = NoServer
    /\ Len(registry) = 1
    /\ Len(sessions) = 1
    /\ sessions[1].outcome = SpawnError
    /\ th[MainThread].outcome = "raised"
    /\ th[MainThread].error.msg = "tool_call_failed"

\* C7: a call that is inside a session step can always take its next step:
\* no handshake or exchange leaves the caller waiting with nothing, neither a
\* response nor an expiry, able to end the wait.
C7_NoSessionStepWaitsForever ==
    \A t \in Threads :
        (InSession(t) /\ th[t].pc # "done") => ENABLED Invocation(t)

\* The handle of process p is held in self.processes.
Tracked(p) == \E i \in 1..Len(processes) : processes[i].proc = p

\* A start_all has created process p and is about to record its handle.
BeingRecorded(p) ==
    \E t \in Threads :
        th[t].kind = "start_all" /\ th[t].pc = "record" /\ th[t].proc = p

\* C8: under every interleaving of start_all and stop_all calls, no process
\* has terminate() called on it twice, and every live process that was never
\* told to terminate is still tracked (or about to be recorded): no handle of
\* a live process is overwritten or dropped by a racing call.
C8_StartStopAreSerialized ==
    /\ \A p \in 1..Len(procs) : procs[p].calls <= 1
    /\ \A p \in 1..Len(procs) :
         (procs[p].alive /\ procs[p].calls = 0) => Tracked(p) \/ BeingRecorded(p)

\* Names of the processes numbered from..to, in creation order.
NamesOfProcs(from, to) == [k \in 1..(to - from + 1) |-> procs[from + k - 1].name]

\* C9: one thread calling start_all: a process is created for a name only
\* when that name has no tracked live process, and the list start_all returns
\* names exactly the processes created by that call, in order.
C9_StartAllSkipsLiveServers ==
    /\ [][Len(procs') > Len(procs) =>
            ~(/\ Has(processes, procs'[Len(procs')].name)
              /\ procs[Get(processes, procs'[Len(procs')].name)].alive)]_vars
    /\ [](\A t \in Threads :
            (th[t].kind = "start_all" /\ th[t].pc = "done") =>
                th[t].started = NamesOfProcs(th[t].first, Len(procs)))

\* C9 witness: a second start_all has returned the empty list: both
\* configured servers were started by an earlier call and are still alive.
C9_Witness ==
    /\ th[MainThread].kind = "start_all"
    /\ th[MainThread].pc = "done"
    /\ th[MainThread].started = <<>>
    /\ th[MainThread].first = 3
    /\ registry = <<"fs", "web">>
    /\ \A i \in 1..Len(registry) :
         Has(processes, registry[i]) /\ procs[Get(processes, registry[i])].alive

\* C10: one thread calling stop_all: when it returns the table is empty,
\* terminate() was called on every process the table held, the returned list
\* names exactly those whose terminate() did not raise, and an empty table
\* gives an empty list.
C10_StopAllSignalsAllAndEmptiesTable ==
    \A t \in Threads :
        (th[t].kind = "stop_all" /\ th[t].pc = "done") =>
            /\ processes = <<>>
            /\ \A j \in 1..Len(th[t].snapshot) :
                 procs[th[t].snapshot[j].proc].calls = 1
            /\ th[t].stopped =
                 LET ok == SelectSeq(th[t].snapshot,
                                     LAMBDA e : procs[e.proc].oks = 1)
                 IN  [k \in 1..Len(ok) |-> ok[k].name]
            /\ th[t].snapshot = <<>> => th[t].stopped = <<>>

\* C10 witness: stop_all has returned after one terminate() that raised and
\* one that did not; neither process is tracked any more.
C10_Witness ==
    /\ th[MainThread].kind = "stop_all"
    /\ th[MainThread].pc = "done"
    /\ Len(th[MainThread].snapshot) = 2
    /\ Len(th[MainThread].stopped) = 1
    /\ processes = <<>>
    /\ \E p \in 1..Len(procs) : procs[p].calls = 1 /\ procs[p].oks = 0

\* Name n has a tracked process that is alive.
LiveTracked(n) ==
    \E i \in 1..Len(processes) :
        processes[i].name = n /\ procs[processes[i].proc].alive

\* C11: whenever get_status returns, after any start_all, stop_all and
\* process exits, its mapping has an entry for every configured name, and the
\* entry is true exactly when that name has a tracked process alive at that
\* moment.
C11_StatusReportsLiveTracked ==
    [][\A t \in Threads :
          (th'[t].kind = "get_status" /\ th'[t] # th[t]) =>
              /\ Range(registry) \subseteq DOMAIN th'[t].result
              /\ \A n \in Range(registry) :
                   th'[t].result[n] = LiveTracked(n)]_vars

\* C11 witness: status reports one server alive, one whose tracked process
\* has exited as false, on a registry of two names.
C11_Witness ==
    /\ th[MainThread].kind = "get_status"
    /\ registry = <<"fs", "web">>
    /\ th[MainThread].result["fs"] = TRUE
    /\ th[MainThread].result["web"] = FALSE
    /\ Has(processes, "web")
    /\ ~procs[Get(processes, "web")].alive

\* C12: a call_tool on an empty registry has raised as soon as it is called,
\* with no session attempted; and the error of an unpinned call on the empty
\* registry differs from the error of the call that follows it with a
\* server_name no descriptor carries.
C12_NoServersConfiguredIsDistinct ==
    /\ [](\A t \in Threads :
            (th[t].kind = "call_tool" /\ registry = <<>>) =>
                /\ th[t].pc = "done"
                /\ th[t].outcome = "raised"
                /\ sessions = <<>>)
    /\ [][\A t \in Threads :
            (/\ registry = <<>>
             /\ th[t].kind = "call_tool"
             /\ th[t].server_name = NoServer
             /\ th[t].outcome = "raised"
             /\ th'[t].kind = "call_tool"
             /\ th'[t].server_name = Unconfigured
             /\ th'[t].outcome = "raised") =>
                th'[t].error # th[t].error]_vars

\* C13 as stated: an unpinned list_tools that has ended has raised exactly
\* when the registry is empty.
C13_ListToolsFailsIffNoServers ==
    \A t \in Threads :
        (/\ th[t].kind = "list_tools"
         /\ th[t].server_name = NoServer
         /\ th[t].pc = "done") =>
            (th[t].outcome = "raised" <=> registry = <<>>)

\* C13 as amended: an unpinned list_tools never raises; on the empty registry
\* it has returned the empty mapping as soon as it is called, with no session
\* opened, and otherwise it returns whatever the per-server outcomes.
C13_ListToolsNeverFails ==
    \A t \in Threads :
        (th[t].kind = "list_tools" /\ th[t].server_name = NoServer) =>
            /\ th[t].outcome # "raised"
            /\ th[t].pc = "done" => th[t].outcome = "returned"
            /\ registry = <<>> =>
                 /\ th[t].pc = "done"
                 /\ DOMAIN th[t].result = {}
                 /\ sessions = <<>>

\* C13 witness: list_tools() has returned on the empty registry.
C13_Witness ==
    /\ th[MainThread].kind = "list_tools"
    /\ th[MainThread].server_name = NoServer
    /\ registry = <<>>
    /\ th[MainThread].outcome = "returned"

\* C14: one thread calling start_all: a Popen that raises changes neither the
\* table nor the result and is followed by the next descriptor (or by the
\* return); start_all returns only after the loop has visited every
\* descriptor; every process it created is tracked under its name; and a name
\* it does not return keeps the entry, or the absence of one, it had before.
C14_SpawnFailureDoesNotAbort ==
    /\ [][\A t \in Threads :
            (/\ th[t].kind = "start_all"
             /\ th[t].pc = "spawn"
             /\ th'[t] # th[t]
             /\ procs' = procs) =>
                /\ th'[t].kind = "start_all"
                /\ th'[t].i = th[t].i + 1
                /\ th'[t].pc = IF th[t].i < Len(registry) THEN "check" ELSE "done"
                /\ th'[t].started = th[t].started
                /\ processes' = processes]_vars
    /\ [](\A t \in Threads :
            (th[t].kind = "start_all" /\ th[t].pc = "done") =>
                /\ th[t].i = Len(registry) + 1
                /\ \A p \in th[t].first..Len(procs) :
                     \E i \in 1..Len(processes) :
                         /\ processes[i].name = procs[p].name
                         /\ processes[i].proc >= p
                /\ \A n \in Range(registry) \ Range(th[t].started) :
                     \A i \in 1..Len(processes) :
                         processes[i].name = n => processes[i].proc < th[t].first)

\* C14 witness: the first call of start_all has returned only "web": the
\* spawn of "fs" failed, "fs" is untracked and "web" is tracked and alive.
C14_Witness ==
    /\ th[MainThread].kind = "start_all"
    /\ th[MainThread].pc = "done"
    /\ th[MainThread].first = 1
    /\ registry = <<"fs", "web">>
    /\ th[MainThread].started = <<"web">>
    /\ processes = <<[name |-> "web", proc |-> 1]>>
    /\ procs[1].alive

\* C15: in every session of a call_tool the list-tools request precedes the
\* call-tool request, the call-tool request is sent only on a session whose
\* own listing was answered with the requested name in it, and a session whose
\* listing lacks the name sends no call-tool request and ends as a failed
\* attempt with tool_not_found.
C15_ListBeforeCallOnlyIfAdvertised ==
    \A t \in Threads :
        th[t].kind = "call_tool" =>
            \A j \in 1..Len(sessions) :
                LET s == sessions[j] IN
                /\ \A k \in 1..Len(s.requests) :
                     s.requests[k] = "call_tool" =>
                         /\ k = 3
                         /\ s.requests[2] = "list_tools"
                         /\ s.listed
                         /\ th[t].name \in Range(s.advertised)
                /\ (s.listed /\ th[t].name \notin Range(s.advertised)) =>
                     /\ s.requests = <<"initialize", "list_tools">>
                     /\ IF s.open
                        THEN th[t].pc = "teardown" /\ th[t].pending = Raised(ToolNotFound)
                        ELSE s.outcome = ToolNotFound
                /\ (s.listed /\ th[t].name \in Range(s.advertised) /\ s.open) =>
                     th[t].pc \in {"call", "teardown", "blocked"}

\* C15 witness: the first server lists only the other tool and receives no
\* call-tool request; the second lists the tool and is sent the call.
C15_Witness ==
    /\ th[MainThread].kind = "call_tool"
    /\ th[MainThread].name = "read_file"
    /\ Len(sessions) = 2
    /\ sessions[1].advertised = <<"x">>
    /\ sessions[1].outcome = ToolNotFound
    /\ sessions[1].requests = <<"initialize", "list_tools">>
    /\ sessions[2].advertised = <<"read_file">>
    /\ sessions[2].requests = <<"initialize", "list_tools", "call_tool">>

\* C16: on every session the first request is initialize; a list-tools or
\* call-tool request is sent only on a session whose initialize was answered;
\* a session whose handshake failed carries the initialize request alone.
C16_InitializeBeforeAnyRequest ==
    \A j \in 1..Len(sessions) :
        LET s == sessions[j] IN
        /\ Len(s.requests) >= 1 => s.requests[1] = "initialize"
        /\ \A k \in 2..Len(s.requests) : s.requests[k] # "initialize"
        /\ Len(s.requests) >= 2 => s.initialized
        /\ s.listed => s.initialized
        /\ ~s.initialized => s.advertised = <<>>
        /\ s.outcome = HandshakeError =>
             /\ ~s.initialized
             /\ s.requests = <<"initialize">>
        /\ ~s.spawned => s.requests = <<>>

\* C16 witness: a handshake was refused on the first server, which was sent
\* nothing else, and the second server was initialized and then listed.
C16_Witness ==
    /\ Len(sessions) = 2
    /\ sessions[1].outcome = HandshakeError
    /\ sessions[1].requests = <<"initialize">>
    /\ sessions[2].initialized
    /\ sessions[2].requests = <<"initialize", "list_tools">>

\* C17: the error call_tool raises after its candidates failed carries the
\* name it was called with and the failure of the last candidate of this
\* call, which is the last configured candidate.
C17_ErrorCarriesNameAndLastFailure ==
    \A t \in Threads :
        (/\ th[t].kind = "call_tool"
         /\ th[t].outcome = "raised"
         /\ th[t].servers # <<>>) =>
            /\ th[t].error.msg = "tool_call_failed"
            /\ th[t].error.name = th[t].name
            /\ Len(sessions) = Len(th[t].servers)
            /\ \A j \in 1..Len(sessions) : sessions[j].srv = th[t].servers[j]
            /\ \A j \in 1..(Len(th[t].servers) - 1) :
                 th[t].servers[j] < th[t].servers[j + 1]
            /\ th[t].error.last = sessions[Len(sessions)].outcome
            /\ th[t].error.last # NoneErr

\* C17 witness: three candidates failed in three different ways and the error
\* carries the third failure.
C17_Witness ==
    /\ th[MainThread].kind = "call_tool"
    /\ th[MainThread].outcome = "raised"
    /\ Len(sessions) = 3
    /\ sessions[1].outcome = SpawnError
    /\ sessions[2].outcome = ToolNotFound
    /\ sessions[3].outcome = CallError
    /\ th[MainThread].error.last = CallError
    /\ th[MainThread].error.name = "x"

\* C20: a list_tools with a server_name opens sessions only for descriptors
\* of that name, one for each of them, and returns entries under that name
\* only; when no descriptor has the name it opens no session and returns the
\* empty mapping without raising, whereas call_tool with such a name raises.
C20_PinnedListQueriesOnlyThatName ==
    \A t \in Threads :
        /\ (th[t].kind = "list_tools" /\ th[t].server_name # NoServer) =>
             /\ \A j \in 1..Len(sessions) :
                  registry[sessions[j].srv] = th[t].server_name
             /\ \A j \in 1..(Len(sessions) - 1) :
                  sessions[j].srv < sessions[j + 1].srv
             /\ th[t].outcome # "raised"
             /\ th[t].pc = "done" =>
                  /\ th[t].outcome = "returned"
                  /\ DOMAIN th[t].result \subseteq {th[t].server_name}
                  /\ Len(sessions) =
                       Cardinality({i \in 1..Len(registry) :
                                       registry[i] = th[t].server_name})
             /\ (\A i \in 1..Len(registry) : registry[i] # th[t].server_name) =>
                  /\ th[t].pc = "done"
                  /\ DOMAIN th[t].result = {}
                  /\ sessions = <<>>
        /\ (/\ th[t].kind = "call_tool"
            /\ th[t].server_name # NoServer
            /\ \A i \in 1..Len(registry) : registry[i] # th[t].server_name) =>
             /\ th[t].outcome = "raised"
             /\ sessions = <<>>

\* C20 witness: list_tools was called with a name none of three configured
\* descriptors carries and returned.
C20_Witness ==
    /\ th[MainThread].kind = "list_tools"
    /\ th[MainThread].server_name = Unconfigured
    /\ Len(registry) = MaxServers
    /\ th[MainThread].pc = "done"
    /\ th[MainThread].outcome = "returned"
    /\ sessions = <<>>

\* C19: once get_status has reported a tracked process as exited, the table
\* no longer holds that process's handle.
C19_ExitedHandleIsReleased ==
    \A t \in Threads :
        (th[t].kind = "get_status" /\ th[t].pc = "done") =>
            \A n \in DOMAIN th[t].result :
                (~th[t].result[n]) => ~Has(processes, n)

\* C18: a step of call_tool or list_tools leaves the tracked-process table
\* and every process start_all created as they were; a step of start_all,
\* stop_all or get_status, and the exit of a process, leave every session as
\* it was; a process enters the supervisor's view only in a start_all; and
\* the outcome of a finished call_tool or list_tools is the one its own
\* sessions give, whatever the supervisor did before or between.
C18_InvocationAndSupervisorAreSeparate ==
    /\ [][/\ (\E t \in Threads :
                /\ th'[t] # th[t]
                /\ th'[t].kind \in {"call_tool", "list_tools"}) =>
                    /\ processes' = processes
                    /\ procs' = procs
          /\ (\E t \in Threads :
                /\ th'[t] # th[t]
                /\ th'[t].kind \in {"start_all", "stop_all", "get_status"}) =>
                    sessions' = sessions
          /\ sessions' # sessions =>
                \E t \in Threads :
                    /\ th'[t] # th[t]
                    /\ th'[t].kind \in {"call_tool", "list_tools"}
          /\ procs' # procs =>
                \/ \E t \in Threads :
                      /\ th'[t] # th[t]
                      /\ th'[t].kind \in {"start_all", "stop_all"}
                \/ /\ th' = th
                   /\ Len(procs') = Len(procs)]_vars
    /\ [](\A t \in Threads :
            /\ (th[t].kind = "call_tool" /\ th[t].pc = "done") =>
                 LET cands == SelectSeq([i \in 1..Len(registry) |-> i],
                                  LAMBDA i : \/ th[t].server_name = NoServer
                                             \/ registry[i] = th[t].server_name)
                 IN
                 /\ th[t].servers = cands
                 /\ \A j \in 1..Len(sessions) : sessions[j].srv = cands[j]
                 /\ th[t].outcome = "returned" <=>
                      /\ sessions # <<>>
                      /\ sessions[Len(sessions)].outcome = "ok"
                 /\ th[t].outcome = "raised" <=>
                      /\ Len(sessions) = Len(cands)
                      /\ \A j \in 1..Len(sessions) : sessions[j].outcome # "ok"
            /\ (th[t].kind = "list_tools" /\ th[t].pc = "done") =>
                 /\ th[t].outcome = "returned"
                 /\ \A j \in 1..Len(sessions) :
                      /\ registry[sessions[j].srv] \in DOMAIN th[t].result
                      /\ sessions[j].outcome # "ok" =>
                           \E i \in j..Len(sessions) :
                              /\ sessions[i].srv >= sessions[j].srv
                              /\ registry[sessions[i].srv] = registry[sessions[j].srv]
                              /\ \/ sessions[i].outcome # "ok"
                                    /\ th[t].result[registry[sessions[j].srv]] = <<>>
                                 \/ sessions[i].outcome = "ok"
                                    /\ th[t].result[registry[sessions[j].srv]]
                                         = sessions[i].advertised)

\* C18 witness: start_all has a live tracked process for the one configured
\* server, and a later call_tool has opened and closed its own session for
\* that server and returned, with the tracked process still live and tracked.
C18_Witness ==
    /\ th[MainThread].kind = "call_tool"
    /\ th[MainThread].pc = "done"
    /\ th[MainThread].outcome = "returned"
    /\ Len(sessions) = 1
    /\ sessions[1].outcome = "ok"
    /\ sessions[1].teardowns = 1
    /\ Len(processes) = 1
    /\ processes[1].name = registry[sessions[1].srv]
    /\ procs[processes[1].proc].alive
    /\ procs[processes[1].proc].calls = 0

====
